---- MODULE Spec2Model ----
(***************************************************************************)
(* Model of hydrophone: Client.FetchExitCode (the termination watcher) and *)
(* Client.PrintE2ELogs (readiness polling and the three-channel log        *)
(* consumer) of pkg/client/check.go, and Configuration.Complete (the merge *)
(* of flags and config file, and the resolution of the kubeconfig path).   *)
(***************************************************************************)
EXTENDS Integers, Sequences, FiniteSets, TLC

\* ------------------------------------------------------------------ bounds

\* Longest watch stream the environment emits before closing the channel.
MaxEvents == 3

\* Longest run of lines the log source produces before it ends.
MaxLines == 2

\* The readiness polls counted (the count saturates, the loop goes on).
MaxPolls == 2

\* ------------------------------------------------------------- data model

\* common.ConformanceContainer, and the name of any other container of the pod.
ConformanceContainer == "conformance-container"
OtherContainer == "output-container"

\* v1.PodPhase
PodPending == "Pending"
PodRunning == "Running"
PodSucceeded == "Succeeded"
PodFailed == "Failed"
PodUnknown == "Unknown"
Phases == {PodPending, PodRunning, PodSucceeded, PodFailed, PodUnknown}

\* v1.ContainerStatus: terminated is State.Terminated != nil, exitCode is
\* State.Terminated.ExitCode (read only when terminated).
Status(n, t, e) == [name |-> n, terminated |-> t, exitCode |-> e]

\* The container status lists the watch may carry: names are unique within a
\* list, the order is the one delivered.
StatusLists ==
    { <<>>,
      <<Status(ConformanceContainer, FALSE, 0), Status(OtherContainer, FALSE, 0)>>,
      <<Status(ConformanceContainer, TRUE, 0), Status(OtherContainer, FALSE, 0)>>,
      <<Status(ConformanceContainer, TRUE, 2), Status(OtherContainer, FALSE, 0)>>,
      <<Status(ConformanceContainer, FALSE, 0), Status(OtherContainer, TRUE, 1)>>,
      <<Status(OtherContainer, TRUE, 1), Status(ConformanceContainer, TRUE, 2)>> }

\* watch.Event: Object is a *v1.Pod (isPod) or some other runtime.Object.
PodEvent(p, cs) == [isPod |-> TRUE, phase |-> p, statuses |-> cs]
NotAPod == [isPod |-> FALSE, phase |-> "", statuses |-> <<>>]
Events == {PodEvent(p, cs) : p \in Phases, cs \in StatusLists} \cup {NotAPod}

SeqsUpTo(S, n) == UNION {[1..k -> S] : k \in 0..n}

VARIABLES
    watchFails,   \* input: Pods(ns).Watch(ctx, ...) returns an error
    resultChan,   \* input: the events the watch emits on ResultChan, in order
    consumed,     \* number of events the range loop has received
    ctxDone,      \* the caller's context was cancelled: the watch closed its channel
    fpc,          \* position of FetchExitCode: "call", "observing", "returned"
    ExitCode,     \* Client.ExitCode
    fetchErr      \* the error FetchExitCode returned: "unset", "nil", "error"

fetchVars == <<watchFails, resultChan, consumed, ctxDone, fpc, ExitCode, fetchErr>>

VARIABLES
    addHandlerFails, \* input: Informer().AddEventHandler returns an error
    source,       \* input: what the container log produces: lines, then "eof" or "error"
    ppc,          \* position of PrintE2ELogs: "call", "poll", "select", "returned",
                  \* "fatal" (log.Fatal exited the process), "panic"
    polls,        \* readiness polls made so far, counted up to MaxPolls
    lastGet,      \* what the last Lister().Get gave: "none", "notfound" or a phase
    launched,     \* number of getPodLogs goroutines started
    gpc,          \* position of getPodLogs: "idle", "read", "sendLog", "sendErr",
                  \* "sendDone", "exited"
    nread,        \* lines getPodLogs has read from the log source
    observed,     \* the signals the select has received, in order
    printed,      \* the lines fmt.Print has written, in order
    printErr,     \* the error PrintE2ELogs returned: "unset", "nil", "error"
    printCtxDone  \* the ctx given to PrintE2ELogs was cancelled

logVars == <<addHandlerFails, source, ppc, polls, lastGet, launched, gpc, nread,
             observed, printed, printErr, printCtxDone>>

\* types.Configuration, the fields modelled: one string, one int, one bool
\* option (strings are sequences of characters).
Config(k, p, d) == [Kubeconfig |-> k, Parallel |-> p, DryRun |-> d]
Fields == {"Kubeconfig", "Parallel", "DryRun"}

\* The value result holds in the model while the pointer is nil.
NoConfig == Config(<<>>, 0, FALSE)

\* new(T): the zero value of a field's type.
Empty(f) == IF f = "Kubeconfig" THEN <<>> ELSE IF f = "Parallel" THEN 0 ELSE FALSE

VARIABLES
    configFile,   \* input: c.configFile is not empty (--config was given)
    loadFails,    \* input: loadConfiguration returns an error
    loaded,       \* input: the configuration loadConfiguration reads from the file
    changed,      \* input: fs.Changed(name) of each option's flag
    cfg,          \* the receiver c, its fields as the flags have set them
    envKubeconfig, \* input: os.Getenv("KUBECONFIG")
    homeFails,    \* input: os.UserHomeDir returns an error
    validateFails, \* input: result.Validate returns an error
    cpc,          \* position of Complete: "call", "resolve", "tilde", "validate",
                  \* "returned", "panic"
    result,       \* *result; NoConfig before it is set and when nil is returned
    resolved,     \* result.Kubeconfig as lines 74-87 leave it (never empty), <<>> before
    completeErr   \* the error Complete returned: "unset", "nil", "error"

cfgVars == <<configFile, loadFails, loaded, changed, cfg, envKubeconfig, homeFails,
             validateFails, cpc, result, resolved, completeErr>>

\* Complete not called: no flag set, no file, nothing in the environment.
CfgIdle ==
    /\ configFile = FALSE
    /\ loadFails = FALSE
    /\ loaded = Config(<<>>, 0, FALSE)
    /\ changed = [f \in Fields |-> FALSE]
    /\ cfg = Config(<<>>, 0, FALSE)
    /\ envKubeconfig = <<>>
    /\ homeFails = FALSE
    /\ validateFails = FALSE
    /\ cpc = "call"
    /\ result = NoConfig
    /\ resolved = <<>>
    /\ completeErr = "unset"

vars == <<fetchVars, logVars, cfgVars>>

\* ---------------------------------------------------------- FetchExitCode

\* The loop of lines 109-113: the last conformance entry with a Terminated
\* state decides, any other entry leaves the code as it is.
RECURSIVE ScanTerminalPhase(_, _)
ScanTerminalPhase(cs, ec) ==
    IF cs = <<>> THEN ec
    ELSE ScanTerminalPhase(Tail(cs),
            IF Head(cs).name = ConformanceContainer /\ Head(cs).terminated
            THEN Head(cs).exitCode ELSE ec)

\* The loop of lines 117-125, the exit code it leaves.
RECURSIVE ScanRunning(_, _)
ScanRunning(cs, ec) ==
    IF cs = <<>> THEN ec
    ELSE ScanRunning(Tail(cs),
            IF Head(cs).terminated /\ Head(cs).name = ConformanceContainer
            THEN Head(cs).exitCode ELSE ec)

\* The loop of lines 116-125, its flag: some container has a Terminated state.
AnyTerminated(cs) == \E i \in 1..Len(cs) : cs[i].terminated

\* ExitCodeAfter with the container scan run whatever the phase is.
ExitCodeAfter_ScansAnyPhase(ev, ec) ==
    IF ~ev.isPod THEN -1
    ELSE ScanTerminalPhase(ev.statuses, ec)

\* ExitCodeAfter with the sentinel of line 103 left out.
ExitCodeAfter_NoSentinel(ev, ec) ==
    IF ~ev.isPod THEN ec
    ELSE IF ev.phase \in {PodSucceeded, PodFailed} THEN ScanTerminalPhase(ev.statuses, ec)
    ELSE IF ev.phase = PodRunning THEN ScanRunning(ev.statuses, ec)
    ELSE ec

\* Client.ExitCode after the loop body ran on event ev.
ExitCodeAfter(ev, ec) ==
    IF ~ev.isPod THEN -1
    ELSE IF ev.phase \in {PodSucceeded, PodFailed} THEN ScanTerminalPhase(ev.statuses, ec)
    ELSE IF ev.phase = PodRunning THEN ScanRunning(ev.statuses, ec)
    ELSE ec

\* LeavesLoop without the break of line 127: a Running pod is watched until
\* its phase is terminal.
LeavesLoop_WaitsForPodPhase(ev) ==
    \/ ~ev.isPod
    \/ ev.phase \in {PodSucceeded, PodFailed}

\* LeavesLoop without the break of line 114: the loop goes on after a
\* Succeeded or Failed snapshot.
LeavesLoop_NoBreakOnTerminalPhase(ev) ==
    \/ ~ev.isPod
    \/ ev.phase = PodRunning /\ AnyTerminated(ev.statuses)

\* Whether the loop body leaves the loop on event ev (return at 104, break at
\* 114 or 127).
LeavesLoop(ev) ==
    \/ ~ev.isPod
    \/ ev.phase \in {PodSucceeded, PodFailed}
    \/ ev.phase = PodRunning /\ AnyTerminated(ev.statuses)

\* FetchWatch with the error of Watch swallowed: nil is returned.
FetchWatch_SwallowsError ==
    /\ fpc = "call"
    /\ IF watchFails
       THEN fpc' = "returned" /\ fetchErr' = "nil"
       ELSE fpc' = "observing" /\ fetchErr' = fetchErr
    /\ UNCHANGED <<watchFails, resultChan, consumed, ctxDone, ExitCode>>
    /\ UNCHANGED <<logVars, cfgVars>>

\* Lines 91-96: establish the watch, or return the wrapped error.
FetchWatch ==
    /\ fpc = "call"
    /\ IF watchFails
       THEN fpc' = "returned" /\ fetchErr' = "error"
       ELSE fpc' = "observing" /\ fetchErr' = fetchErr
    /\ UNCHANGED <<watchFails, resultChan, consumed, ctxDone, ExitCode>>
    /\ UNCHANGED <<logVars, cfgVars>>

\* Lines 99-130: one iteration of the range loop on the next event.
FetchRecv ==
    /\ fpc = "observing"
    /\ ~ctxDone
    /\ consumed < Len(resultChan)
    /\ LET ev == resultChan[consumed + 1] IN
       /\ consumed' = consumed + 1
       /\ ExitCode' = ExitCodeAfter(ev, ExitCode)
       /\ IF LeavesLoop(ev)
          THEN fpc' = "returned" /\ fetchErr' = "nil"
          ELSE fpc' = fpc /\ fetchErr' = fetchErr
    /\ UNCHANGED <<watchFails, resultChan, ctxDone>>
    /\ UNCHANGED <<logVars, cfgVars>>

\* Lines 99, 132: the result channel is closed, the range loop ends.
FetchChanClosed ==
    /\ fpc = "observing"
    /\ ctxDone \/ consumed = Len(resultChan)
    /\ fpc' = "returned"
    /\ fetchErr' = "nil"
    /\ UNCHANGED <<watchFails, resultChan, consumed, ctxDone, ExitCode>>
    /\ UNCHANGED <<logVars, cfgVars>>

\* The caller cancels ctx while the loop observes: the watch stops and closes
\* its result channel, the events not yet received are never delivered.
FetchCtxCancel ==
    /\ fpc = "observing"
    /\ ~ctxDone
    /\ ctxDone' = TRUE
    /\ UNCHANGED <<watchFails, resultChan, consumed, fpc, ExitCode, fetchErr>>
    /\ UNCHANGED <<logVars, cfgVars>>

\* PrintE2ELogs not called: its state as constructed.
LogsIdle ==
    /\ addHandlerFails = FALSE
    /\ source = [lines |-> <<>>, end |-> "eof"]
    /\ ppc = "call"
    /\ polls = 0
    /\ lastGet = "none"
    /\ launched = 0
    /\ gpc = "idle"
    /\ nread = 0
    /\ observed = <<>>
    /\ printed = <<>>
    /\ printErr = "unset"
    /\ printCtxDone = FALSE

\* FetchExitCode not called: its state as constructed.
FetchIdle ==
    /\ consumed = 0
    /\ ctxDone = FALSE
    /\ fpc = "call"
    /\ ExitCode = 0
    /\ fetchErr = "unset"

FetchInit ==
    /\ watchFails \in BOOLEAN
    /\ resultChan \in SeqsUpTo(Events, MaxEvents)
    /\ FetchIdle
    /\ LogsIdle
    /\ CfgIdle

FetchNext == FetchWatch \/ FetchRecv \/ FetchChanClosed \/ FetchCtxCancel

SpecFetch == FetchInit /\ [][FetchNext]_vars

\* ----------------------------------------------------------- PrintE2ELogs

\* The texts a log line may carry.
LogLines == {"a", "b"}

\* What the container log does: it produces its lines, then closes cleanly
\* ("eof") or fails ("error").
Sources == [lines : SeqsUpTo(LogLines, MaxLines), end : {"eof", "error"}]

\* What the select of lines 69-79 receives: one value of logCh, errCh or doneCh.
Line(x) == [sig |-> "line", text |-> x]
Failure == [sig |-> "failure", text |-> ""]
Done == [sig |-> "done", text |-> ""]

CountUp(n) == IF n < MaxPolls THEN n + 1 ELSE n

\* Lines 44-53: the informer is set up; a failing AddEventHandler is returned.
PrintStart ==
    /\ ppc = "call"
    /\ IF addHandlerFails
       THEN ppc' = "returned" /\ printErr' = "error"
       ELSE ppc' = "poll" /\ printErr' = printErr
    /\ UNCHANGED <<addHandlerFails, source, polls, lastGet, launched, gpc, nread,
                   observed, printed>>
    /\ UNCHANGED printCtxDone
    /\ UNCHANGED <<fetchVars, cfgVars>>

\* Lines 56-57: the lister has no pod: Get returns (nil, err), the error is
\* dropped and pod.Status dereferences the nil pointer.
PollNotFound ==
    /\ ppc = "poll"
    /\ lastGet' = "notfound"
    /\ polls' = CountUp(polls)
    /\ ppc' = "panic"
    /\ UNCHANGED <<addHandlerFails, source, launched, gpc, nread, observed, printed,
                   printErr>>
    /\ UNCHANGED printCtxDone
    /\ UNCHANGED <<fetchVars, cfgVars>>

\* PollNotRunning with the loop given up on a pod that is already over.
PollNotRunning_GivesUpOnTerminalPhase ==
    /\ ppc = "poll"
    /\ \E p \in Phases \ {PodRunning} :
          /\ lastGet' = p
          /\ IF p \in {PodSucceeded, PodFailed}
             THEN ppc' = "returned" /\ printErr' = "nil"
             ELSE ppc' = ppc /\ printErr' = printErr
    /\ polls' = CountUp(polls)
    /\ UNCHANGED <<addHandlerFails, source, launched, gpc, nread, observed, printed>>
    /\ UNCHANGED printCtxDone
    /\ UNCHANGED <<fetchVars, cfgVars>>

\* Lines 55-57, 83: the pod is not Running, the loop polls again.
PollNotRunning ==
    /\ ppc = "poll"
    /\ \E p \in Phases \ {PodRunning} : lastGet' = p
    /\ polls' = CountUp(polls)
    /\ UNCHANGED <<addHandlerFails, source, ppc, launched, gpc, nread, observed,
                   printed, printErr>>
    /\ UNCHANGED printCtxDone
    /\ UNCHANGED <<fetchVars, cfgVars>>

\* Lines 57-65: the pod is Running: the channels are made and getPodLogs is
\* started as a goroutine.
PollRunning ==
    /\ ppc = "poll"
    /\ lastGet' = PodRunning
    /\ polls' = CountUp(polls)
    /\ launched' = launched + 1
    /\ gpc' = "read"
    /\ ppc' = "select"
    /\ UNCHANGED <<addHandlerFails, source, nread, observed, printed, printErr>>
    /\ UNCHANGED printCtxDone
    /\ UNCHANGED <<fetchVars, cfgVars>>

\* The caller cancels ctx while the readiness loop runs. Lines 55-57 never
\* read ctx (only getPodLogs is given it, line 65), so nothing else changes;
\* what a cancelled ctx does to the log stream is part of source.
PrintCtxCancel ==
    /\ ppc = "poll"
    /\ ~printCtxDone
    /\ printCtxDone' = TRUE
    /\ UNCHANGED <<addHandlerFails, source, ppc, polls, lastGet, launched, gpc, nread,
                   observed, printed, printErr>>
    /\ UNCHANGED <<fetchVars, cfgVars>>

\* The process lives: neither log.Fatal nor a panic has ended it.
Alive == ppc \notin {"fatal", "panic"}

\* getPodLogs: it takes the next thing the log source produces and goes to
\* send it: a line on logCh, the error on errCh, or true on doneCh at a clean
\* end of the stream.
GetPodLogsRead ==
    /\ Alive
    /\ gpc = "read"
    /\ IF nread < Len(source.lines)
       THEN nread' = nread + 1 /\ gpc' = "sendLog"
       ELSE nread' = nread /\ gpc' = (IF source.end = "eof" THEN "sendDone" ELSE "sendErr")
    /\ UNCHANGED <<addHandlerFails, source, ppc, polls, lastGet, launched, observed,
                   printed, printErr>>
    /\ UNCHANGED printCtxDone
    /\ UNCHANGED <<fetchVars, cfgVars>>

\* RecvErr with the error only logged: the select goes on.
RecvErr_Continues ==
    /\ ppc = "select"
    /\ gpc = "sendErr"
    /\ observed' = Append(observed, Failure)
    /\ gpc' = "exited"
    /\ UNCHANGED <<addHandlerFails, source, ppc, polls, lastGet, launched, nread,
                   printed, printErr>>
    /\ UNCHANGED printCtxDone
    /\ UNCHANGED <<fetchVars, cfgVars>>

\* Lines 70-71: the select receives from errCh (unbuffered: getPodLogs is at
\* its send) and log.Fatal ends the process.
RecvErr ==
    /\ ppc = "select"
    /\ gpc = "sendErr"
    /\ observed' = Append(observed, Failure)
    /\ gpc' = "exited"
    /\ ppc' = "fatal"
    /\ UNCHANGED <<addHandlerFails, source, polls, lastGet, launched, nread, printed,
                   printErr>>
    /\ UNCHANGED printCtxDone
    /\ UNCHANGED <<fetchVars, cfgVars>>

\* RecvLog with the error of fmt.Print dropped: the select goes on.
RecvLog_IgnoresWriteError ==
    /\ ppc = "select"
    /\ gpc = "sendLog"
    /\ observed' = Append(observed, Line(source.lines[nread]))
    /\ gpc' = "read"
    /\ \E writeOk \in BOOLEAN :
          IF writeOk
          THEN printed' = Append(printed, source.lines[nread])
          ELSE printed' = printed
    /\ UNCHANGED <<addHandlerFails, source, ppc, polls, lastGet, launched, nread,
                   printErr>>
    /\ UNCHANGED printCtxDone
    /\ UNCHANGED <<fetchVars, cfgVars>>

\* Lines 72-76: the select receives a line from logCh and prints it; a failed
\* write ends the process through log.Fatal.
RecvLog ==
    /\ ppc = "select"
    /\ gpc = "sendLog"
    /\ observed' = Append(observed, Line(source.lines[nread]))
    /\ gpc' = "read"
    /\ \E writeOk \in BOOLEAN :
          IF writeOk
          THEN printed' = Append(printed, source.lines[nread]) /\ ppc' = ppc
          ELSE printed' = printed /\ ppc' = "fatal"
    /\ UNCHANGED <<addHandlerFails, source, polls, lastGet, launched, nread, printErr>>
    /\ UNCHANGED printCtxDone
    /\ UNCHANGED <<fetchVars, cfgVars>>

\* RecvDone with a plain break, which leaves the select and not the loop.
RecvDone_BreaksSelectOnly ==
    /\ ppc = "select"
    /\ gpc = "sendDone"
    /\ observed' = Append(observed, Done)
    /\ gpc' = "exited"
    /\ UNCHANGED <<addHandlerFails, source, ppc, polls, lastGet, launched, nread,
                   printed, printErr>>
    /\ UNCHANGED printCtxDone
    /\ UNCHANGED <<fetchVars, cfgVars>>

\* RecvDone without the break of line 81: the readiness loop runs again.
RecvDone_ReentersPoll ==
    /\ ppc = "select"
    /\ gpc = "sendDone"
    /\ observed' = Append(observed, Done)
    /\ gpc' = "exited"
    /\ ppc' = "poll"
    /\ UNCHANGED <<addHandlerFails, source, polls, lastGet, launched, nread, printed,
                   printErr>>
    /\ UNCHANGED printCtxDone
    /\ UNCHANGED <<fetchVars, cfgVars>>

\* Lines 77-78, 81, 85: the select receives from doneCh, both loops are left
\* and nil is returned.
RecvDone ==
    /\ ppc = "select"
    /\ gpc = "sendDone"
    /\ observed' = Append(observed, Done)
    /\ gpc' = "exited"
    /\ ppc' = "returned"
    /\ printErr' = "nil"
    /\ UNCHANGED <<addHandlerFails, source, polls, lastGet, launched, nread, printed>>
    /\ UNCHANGED printCtxDone
    /\ UNCHANGED <<fetchVars, cfgVars>>

PrintInit ==
    /\ addHandlerFails \in BOOLEAN
    /\ source \in Sources
    /\ ppc = "call"
    /\ polls = 0
    /\ lastGet = "none"
    /\ launched = 0
    /\ gpc = "idle"
    /\ nread = 0
    /\ observed = <<>>
    /\ printed = <<>>
    /\ printErr = "unset"
    /\ printCtxDone = FALSE
    /\ watchFails = FALSE
    /\ resultChan = <<>>
    /\ FetchIdle
    /\ CfgIdle

PrintNext ==
    \/ PrintStart
    \/ PollNotFound
    \/ PollNotRunning
    \/ PollRunning
    \/ PrintCtxCancel
    \/ GetPodLogsRead
    \/ RecvErr
    \/ RecvLog
    \/ RecvDone

SpecPrint == PrintInit /\ [][PrintNext]_vars

\* --------------------------------------------------- Configuration.Complete

\* os.UserHomeDir when it succeeds, and the names joined at line 85.
HomeDir == <<"/", "h">>
DotKube == <<".", "k", "u", "b", "e">>
ConfigName == <<"c", "o", "n", "f", "i", "g">>

\* The kubeconfig paths a flag or the file may carry, and what $KUBECONFIG
\* may hold.
KubePaths == { <<>>, <<"~">>, <<"~", "/", "k">>, <<"/", "k">> }
EnvPaths == { <<>>, <<"/", "e">>, <<"~", "/", "e">> }

\* strings.HasPrefix(s, "~")
HasTildePrefix(s) == s # <<>> /\ Head(s) = "~"

\* filepath.Clean, the part paths without ".." need: the elements between
\* separators, the empty ones and "." dropped.
KeepElement(acc, cur) == IF cur = <<>> \/ cur = <<".">> THEN acc ELSE Append(acc, cur)

RECURSIVE Elements(_, _, _)
Elements(p, cur, acc) ==
    IF p = <<>> THEN KeepElement(acc, cur)
    ELSE IF Head(p) = "/" THEN Elements(Tail(p), <<>>, KeepElement(acc, cur))
    ELSE Elements(Tail(p), Append(cur, Head(p)), acc)

RECURSIVE Glue(_)
Glue(els) ==
    IF els = <<>> THEN <<>>
    ELSE IF Len(els) = 1 THEN els[1]
    ELSE els[1] \o <<"/">> \o Glue(Tail(els))

Clean(p) ==
    LET body == Glue(Elements(p, <<>>, <<>>)) IN
    IF p # <<>> /\ Head(p) = "/" THEN <<"/">> \o body
    ELSE IF body = <<>> THEN <<".">>
    ELSE body

\* filepath.Join of two elements: empty elements are ignored, the rest is
\* joined by the separator and cleaned.
Join(a, b) ==
    IF a = <<>> /\ b = <<>> THEN <<>>
    ELSE IF a = <<>> THEN Clean(b)
    ELSE IF b = <<>> THEN Clean(a)
    ELSE Clean(a \o <<"/">> \o b)

\* overwrite (lines 106-111): the value *dst holds afterwards.
Overwrite(flagChanged, dst, src, empty) ==
    IF src # empty /\ (flagChanged \/ dst = empty) THEN src ELSE dst

\* Lines 56-69: the loaded configuration with the flags' values written over.
Merged ==
    [f \in Fields |-> Overwrite(changed[f], loaded[f], cfg[f], Empty(f))]

\* Lines 47-72: result is c itself, or the configuration loaded from the
\* file with the flags written over it; a file that does not load is
\* returned as an error.
CompleteMerge ==
    /\ cpc = "call"
    /\ IF ~configFile
       THEN result' = cfg /\ cpc' = "resolve" /\ completeErr' = completeErr
       ELSE IF loadFails
       THEN result' = NoConfig /\ cpc' = "returned" /\ completeErr' = "error"
       ELSE result' = Merged /\ cpc' = "resolve" /\ completeErr' = completeErr
    /\ UNCHANGED <<configFile, loadFails, loaded, changed, cfg, envKubeconfig,
                   homeFails, validateFails, resolved>>
    /\ UNCHANGED <<fetchVars, logVars>>

\* result and c are one object when no file was loaded (line 47): a write to
\* result.Kubeconfig is then a write to c.Kubeconfig.
SetKubeconfig(k) ==
    /\ result' = [result EXCEPT !.Kubeconfig = k]
    /\ cfg' = IF configFile THEN cfg ELSE [cfg EXCEPT !.Kubeconfig = k]

\* Lines 74-87: an empty kubeconfig becomes $KUBECONFIG or ~/.kube/config.
CompleteResolve ==
    /\ cpc = "resolve"
    /\ IF result.Kubeconfig # <<>>
       THEN /\ resolved' = result.Kubeconfig
            /\ cpc' = "tilde"
            /\ UNCHANGED <<result, cfg, completeErr>>
       ELSE IF envKubeconfig # <<>>
       THEN /\ SetKubeconfig(envKubeconfig)
            /\ resolved' = envKubeconfig
            /\ cpc' = "tilde"
            /\ UNCHANGED completeErr
       ELSE IF homeFails
       THEN /\ result' = NoConfig
            /\ cpc' = "returned"
            /\ completeErr' = "error"
            /\ UNCHANGED <<cfg, resolved>>
       ELSE /\ SetKubeconfig(Join(Join(HomeDir, DotKube), ConfigName))
            /\ resolved' = Join(Join(HomeDir, DotKube), ConfigName)
            /\ cpc' = "tilde"
            /\ UNCHANGED completeErr
    /\ UNCHANGED <<configFile, loadFails, loaded, changed, envKubeconfig, homeFails,
                   validateFails>>
    /\ UNCHANGED <<fetchVars, logVars>>

\* Lines 89-97: a kubeconfig that begins with '~' is replaced by the home
\* directory joined with c.Kubeconfig[1:], the receiver's field; slicing an
\* empty c.Kubeconfig panics.
CompleteTilde ==
    /\ cpc = "tilde"
    /\ IF ~HasTildePrefix(result.Kubeconfig)
       THEN cpc' = "validate" /\ UNCHANGED <<result, cfg, completeErr>>
       ELSE IF homeFails
       THEN /\ result' = NoConfig
            /\ cpc' = "returned"
            /\ completeErr' = "error"
            /\ UNCHANGED cfg
       ELSE IF cfg.Kubeconfig = <<>>
       THEN cpc' = "panic" /\ UNCHANGED <<result, cfg, completeErr>>
       ELSE /\ SetKubeconfig(Join(HomeDir, Tail(cfg.Kubeconfig)))
            /\ cpc' = "validate"
            /\ UNCHANGED completeErr
    /\ UNCHANGED <<configFile, loadFails, loaded, changed, envKubeconfig, homeFails,
                   validateFails, resolved>>
    /\ UNCHANGED <<fetchVars, logVars>>

\* Lines 99-103: the result is validated and returned.
CompleteValidate ==
    /\ cpc = "validate"
    /\ cpc' = "returned"
    /\ IF validateFails
       THEN result' = NoConfig /\ completeErr' = "error"
       ELSE result' = result /\ completeErr' = "nil"
    /\ UNCHANGED <<configFile, loadFails, loaded, changed, cfg, envKubeconfig,
                   homeFails, validateFails, resolved>>
    /\ UNCHANGED <<fetchVars, logVars>>

\* The values the flags and the file may give.
CliConfigs == {Config(k, p, d) : k \in KubePaths, p \in {0, 4}, d \in BOOLEAN}
FileConfigs == {Config(k, p, d) : k \in KubePaths, p \in {0, 2}, d \in BOOLEAN}

CompleteInit ==
    /\ configFile \in BOOLEAN
    /\ loadFails \in (IF configFile THEN BOOLEAN ELSE {FALSE})
    /\ loaded \in (IF configFile /\ ~loadFails THEN FileConfigs ELSE {Config(<<>>, 0, FALSE)})
    /\ changed \in [Fields -> BOOLEAN]
    /\ cfg \in CliConfigs
    /\ envKubeconfig \in EnvPaths
    /\ homeFails \in BOOLEAN
    /\ validateFails \in BOOLEAN
    /\ cpc = "call"
    /\ result = NoConfig
    /\ resolved = <<>>
    /\ completeErr = "unset"
    /\ watchFails = FALSE
    /\ resultChan = <<>>
    /\ FetchIdle
    /\ LogsIdle

CompleteNext == CompleteMerge \/ CompleteResolve \/ CompleteTilde \/ CompleteValidate

SpecComplete == CompleteInit /\ [][CompleteNext]_vars

\* ------------------------------------------------ claims on FetchExitCode

\* The vocabulary of the claims, stated on events (not on the code's loop).
ConformanceTerminated(ev) ==
    /\ ev.isPod
    /\ \E i \in 1..Len(ev.statuses) :
          ev.statuses[i].name = ConformanceContainer /\ ev.statuses[i].terminated

ConformanceExit(ev) ==
    LET i == CHOOSE j \in 1..Len(ev.statuses) :
                 ev.statuses[j].name = ConformanceContainer /\ ev.statuses[j].terminated
    IN ev.statuses[i].exitCode

SomeContainerTerminated(ev) ==
    ev.isPod /\ \E i \in 1..Len(ev.statuses) : ev.statuses[i].terminated

\* A terminal signal: a Succeeded/Failed snapshot, a Running snapshot with a
\* terminated container, or an object that is not a pod.
TerminalSignal(ev) ==
    \/ ~ev.isPod
    \/ ev.phase \in {PodSucceeded, PodFailed}
    \/ ev.phase = PodRunning /\ SomeContainerTerminated(ev)

AllPods(s) == \A i \in 1..Len(s) : s[i].isPod

NoTerminalSignalConsumed == \A i \in 1..consumed : ~TerminalSignal(resultChan[i])

FirstConformanceTerminated(s) ==
    CHOOSE i \in 1..Len(s) :
        /\ ConformanceTerminated(s[i])
        /\ \A j \in 1..(i - 1) : ~ConformanceTerminated(s[j])

\* C1: for every stream of pod snapshots in which the conformance container
\* eventually appears terminated with exit code E, FetchExitCode returns with
\* ExitCode = E, whatever snapshots without a terminated conformance container
\* came before. Stated on the streams the claim names: the snapshots before
\* are Pending, Unknown or Running, and the terminated conformance container
\* shows in a Running, Succeeded or Failed snapshot.
C1_ExitCodeOfTerminatedConformance ==
    ( /\ fpc = "returned"
      /\ ~watchFails
      /\ ~ctxDone
      /\ AllPods(resultChan)
      /\ \E i \in 1..Len(resultChan) : ConformanceTerminated(resultChan[i])
      /\ LET k == FirstConformanceTerminated(resultChan) IN
         /\ resultChan[k].phase \in {PodRunning, PodSucceeded, PodFailed}
         /\ \A j \in 1..(k - 1) :
               resultChan[j].phase \in {PodPending, PodUnknown, PodRunning} )
    => ExitCode = ConformanceExit(resultChan[FirstConformanceTerminated(resultChan)])

\* C2: a Running snapshot whose conformance container is terminated with exit
\* code E makes FetchExitCode set ExitCode = E and return nil on that very
\* snapshot: it is the last event received.
C2_RunningTerminatedResolves ==
    \A i \in 1..consumed :
        (resultChan[i].phase = PodRunning /\ ConformanceTerminated(resultChan[i]))
        => /\ i = consumed
           /\ fpc = "returned"
           /\ fetchErr = "nil"
           /\ ExitCode = ConformanceExit(resultChan[i])

C2_Witness ==
    /\ fpc = "returned"
    /\ consumed = 2
    /\ Len(resultChan) > consumed
    /\ resultChan[1].phase = PodPending
    /\ resultChan[2].phase = PodRunning
    /\ ConformanceTerminated(resultChan[2])
    /\ ConformanceExit(resultChan[2]) = 2
    /\ ExitCode = 2

\* C3: an object that is not a pod makes FetchExitCode set ExitCode = -1 and
\* return at once: it is the last event received, wherever it stands in the
\* stream.
C3_NotAPodResolvesMinusOne ==
    \A i \in 1..consumed :
        ~resultChan[i].isPod
        => /\ i = consumed
           /\ fpc = "returned"
           /\ fetchErr = "nil"
           /\ ExitCode = -1

C3_Witness ==
    /\ fpc = "returned"
    /\ consumed = 2
    /\ Len(resultChan) > consumed
    /\ resultChan[1].isPod
    /\ ~resultChan[2].isPod
    /\ ExitCode = -1

C5_StreamClosedGivesMinusOne ==
    ( /\ fpc = "returned"
      /\ ~watchFails
      /\ ~ctxDone
      /\ consumed = Len(resultChan)
      /\ NoTerminalSignalConsumed )
    => ExitCode = -1

\* C6: FetchExitCode resolves at most once: the first terminal signal is the
\* last event it receives, and the exit code it captured from the conformance
\* container is the one it keeps.
C6_ResolvesOnce ==
    \A i \in 1..consumed :
        /\ TerminalSignal(resultChan[i]) => i = consumed /\ fpc = "returned"
        /\ ( /\ resultChan[i].phase \in {PodSucceeded, PodFailed, PodRunning}
             /\ ConformanceTerminated(resultChan[i]) )
           => ExitCode = ConformanceExit(resultChan[i])

C6_Witness ==
    /\ fpc = "returned"
    /\ consumed = 1
    /\ Len(resultChan) = 3
    /\ resultChan[1].phase = PodFailed
    /\ ConformanceTerminated(resultChan[1])
    /\ ExitCode = 2
    /\ resultChan[2].phase = PodSucceeded
    /\ ConformanceTerminated(resultChan[2])
    /\ ConformanceExit(resultChan[2]) = 0

\* C7: when the context is cancelled while FetchExitCode observes and no
\* terminal signal was received, FetchExitCode does not hang and resolves to
\* ExitCode = -1.
C7_CancelGivesMinusOne ==
    (ctxDone /\ NoTerminalSignalConsumed)
    => /\ fpc = "returned" \/ ENABLED FetchChanClosed
       /\ fpc = "returned" => ExitCode = -1

\* C13: while the phase is Running, FetchExitCode leaves the loop only when
\* the conformance container is terminated: after a Running snapshot in which
\* only other containers are terminated it goes on observing, so it has
\* returned only if the channel was closed.
C13_SidecarKeepsObserving ==
    ( /\ fpc = "returned"
      /\ consumed >= 1
      /\ resultChan[consumed].phase = PodRunning
      /\ SomeContainerTerminated(resultChan[consumed])
      /\ ~ConformanceTerminated(resultChan[consumed]) )
    => (ctxDone \/ consumed = Len(resultChan))

\* C14: a Succeeded or Failed snapshot in which the conformance container is
\* absent or has no Terminated state makes FetchExitCode resolve to
\* ExitCode = -1.
C14_TerminalPhaseWithoutExitGivesMinusOne ==
    \A i \in 1..consumed :
        ( /\ resultChan[i].isPod
          /\ resultChan[i].phase \in {PodSucceeded, PodFailed}
          /\ ~ConformanceTerminated(resultChan[i]) )
        => (fpc = "returned" /\ ExitCode = -1)

\* A snapshot that is not terminal: Pending or Unknown, or Running with no
\* container in Terminated state.
NonTerminalSnapshot(ev) ==
    /\ ev.isPod
    /\ \/ ev.phase \in {PodPending, PodUnknown}
       \/ ev.phase = PodRunning /\ ~SomeContainerTerminated(ev)

\* C17: events are received one at a time in the order of the stream, and a
\* snapshot that is not terminal leaves ExitCode as it was and the loop
\* observing.
C17_NonTerminalLeavesResult ==
    [][ consumed' # consumed
        => /\ consumed' = consumed + 1
           /\ NonTerminalSnapshot(resultChan[consumed'])
              => (ExitCode' = ExitCode /\ fpc' = "observing" /\ fetchErr' = fetchErr) ]_vars

C17_Witness ==
    /\ fpc = "observing"
    /\ consumed = 2
    /\ Len(resultChan) = 3
    /\ resultChan[1].phase = PodPending
    /\ ConformanceTerminated(resultChan[1])
    /\ ConformanceExit(resultChan[1]) = 2
    /\ resultChan[2].phase = PodRunning
    /\ ~SomeContainerTerminated(resultChan[2])
    /\ resultChan[2].statuses # <<>>
    /\ ExitCode = 0

\* ------------------------------------------------- claims on PrintE2ELogs

\* The signal the select receives i-th from a source: its lines in order, then
\* the one signal of its end.
SignalOf(src, i) ==
    IF i <= Len(src.lines) THEN Line(src.lines[i])
    ELSE IF src.end = "eof" THEN Done ELSE Failure

Observed(sig) == \E i \in 1..Len(observed) : observed[i] = sig

LinesObserved == Cardinality({i \in 1..Len(observed) : observed[i].sig = "line"})

\* C8: with a log source that produces its lines and closes cleanly, the
\* select receives every line once and in order, each is printed as it is
\* received, done comes after the last line and makes PrintE2ELogs return nil,
\* and no failure is received.
C8_CleanStreamInOrder ==
    source.end = "eof"
    => /\ Len(observed) <= Len(source.lines) + 1
       /\ \A i \in 1..Len(observed) : observed[i] = SignalOf(source, i)
       /\ ~Observed(Failure)
       /\ Len(printed) <= LinesObserved
       /\ printed = SubSeq(source.lines, 1, Len(printed))
       /\ Alive => Len(printed) = LinesObserved
       /\ Observed(Done) <=> (ppc = "returned" /\ printErr = "nil")
       /\ Observed(Done) => printed = source.lines

C8_Witness ==
    /\ source = [lines |-> <<"a", "b">>, end |-> "eof"]
    /\ observed = <<Line("a"), Line("b"), Done>>
    /\ printed = <<"a", "b">>
    /\ ppc = "returned"
    /\ printErr = "nil"

\* C9: with a log source that produces lines and then fails, the select
\* receives the lines in order and the failure after them, the failure ends
\* the session, and done is never received: each thing the source produces
\* arrives as exactly one of line, failure, done.
C9_FailureEndsSession ==
    source.end = "error"
    => /\ Len(observed) <= Len(source.lines) + 1
       /\ \A i \in 1..Len(observed) : observed[i] = SignalOf(source, i)
       /\ ~Observed(Done)
       /\ Observed(Failure) => ppc = "fatal" /\ gpc = "exited"
       /\ printErr # "nil"

C9_Witness ==
    /\ source = [lines |-> <<"a">>, end |-> "error"]
    /\ observed = <<Line("a"), Failure>>
    /\ printed = <<"a">>
    /\ ppc = "fatal"

\* C10: when the lookup of the pod fails during readiness polling,
\* PrintE2ELogs returns a readiness error to its caller and does not crash.
C10_LookupFailureIsReturned ==
    lastGet = "notfound" => (ppc = "returned" /\ printErr = "error")

\* C11: the readiness loop is bounded by the caller's context: once ctx is
\* cancelled while no poll has seen the pod Running, PrintE2ELogs polls no
\* more.
C11_CancelStopsPolling ==
    (printCtxDone /\ ppc = "poll")
    => /\ ~ENABLED PollNotRunning
       /\ ~ENABLED PollRunning
       /\ ~ENABLED PollNotFound

\* The texts of the line signals among the first n signals received.
RECURSIVE LinesIn(_, _)
LinesIn(obs, n) ==
    IF n = 0 THEN <<>>
    ELSE IF obs[n].sig = "line" THEN Append(LinesIn(obs, n - 1), obs[n].text)
    ELSE LinesIn(obs, n - 1)

\* C12: PrintE2ELogs returns nil only on the completion of the stream: done
\* was the last signal received, and every line received before it was
\* printed.
C12_NilOnlyAfterDone ==
    printErr = "nil"
    => /\ ppc = "returned"
       /\ Len(observed) >= 1
       /\ observed[Len(observed)] = Done
       /\ printed = LinesIn(observed, Len(observed))

C12_Witness ==
    /\ ppc = "returned"
    /\ printErr = "nil"
    /\ observed = <<Line("b"), Line("a"), Done>>
    /\ printed = <<"b", "a">>

\* C15: getPodLogs is started exactly once per call that gets past readiness,
\* and only after a poll gave a pod whose phase is Running; after done the
\* readiness loop is not run again and no second goroutine is started.
C15_OneStreamerAfterRunning ==
    /\ launched <= 1
    /\ launched = 1 <=> ppc \in {"select", "fatal"} \/ printErr = "nil"
    /\ launched = 1 <=> gpc # "idle"
    /\ launched = 1 => lastGet = PodRunning
    /\ Observed(Done) => (ppc = "returned" /\ gpc = "exited")

C15_Witness ==
    /\ ppc = "returned"
    /\ printErr = "nil"
    /\ Observed(Done)
    /\ launched = 1
    /\ polls >= 2
    /\ lastGet = PodRunning

\* C16: the readiness loop is left only by a poll that sees the pod Running:
\* as long as the polls have seen other phases, PrintE2ELogs is still polling
\* (also with ctx cancelled), has not returned and has started no log
\* streaming.
C16_OnlyRunningLeavesReadiness ==
    (polls >= 1 /\ lastGet \in Phases \ {PodRunning})
    => /\ ppc = "poll"
       /\ ENABLED PollNotRunning
       /\ printErr = "unset"
       /\ launched = 0
       /\ gpc = "idle"
       /\ observed = <<>>

C16_Witness ==
    /\ ppc = "poll"
    /\ polls >= 2
    /\ lastGet = PodFailed
    /\ printCtxDone
    /\ launched = 0

\* --------------------------------------------- claims on Configuration.Complete

\* C18: with a base config file, every option whose flag was set on the
\* command line holds the flag's value in the completed configuration, also
\* when that value is the zero value of its type, and every option whose flag
\* was not set keeps the non-empty value of the file. (Kubeconfig is compared
\* before lines 74-97 rewrite it.)
C18_FlagsOverwriteFile ==
    (configFile /\ (cpc \in {"resolve", "tilde", "validate"} \/ completeErr = "nil"))
    => \A f \in Fields :
          (f # "Kubeconfig" \/ cpc = "resolve")
          => /\ changed[f] => result[f] = cfg[f]
             /\ (~changed[f] /\ loaded[f] # Empty(f)) => result[f] = loaded[f]

\* C19: whenever the resolved kubeconfig path begins with '~' (and the home
\* directory is known), Complete does not crash and the configuration's
\* Kubeconfig is the home directory joined with the rest of that same path.
C19_TildeExpandsResolvedPath ==
    ( /\ cpc \in {"validate", "panic"} \/ (cpc = "returned" /\ completeErr = "nil")
      /\ resolved # <<>>
      /\ HasTildePrefix(resolved)
      /\ ~homeFails )
    => /\ cpc # "panic"
       /\ result.Kubeconfig = Join(HomeDir, Tail(resolved))

====
